---- MODULE Spec2Model ----
(***************************************************************************)
(* The radar animation engine of src/app/src/routes/+page.svelte as a      *)
(* state machine on the browser's single-threaded event loop.  Every       *)
(* callback (a timer callback, a promise callback, a click handler, a      *)
(* lifecycle hook) runs to completion, so each is one atomic action; the   *)
(* event loop interleaves them in any order.                               *)
(*                                                                         *)
(* Timer handles are abstracted by what the code can do with them: the     *)
(* only handle the code keeps is animationTimer, and every setInterval     *)
(* result is assigned to it.  An interval is therefore either the one      *)
(* animationTimer refers to, or an orphan that no clearInterval call can   *)
(* name any more.                                                          *)
(***************************************************************************)
EXTENDS Integers, Sequences, FiniteSets, TLC

\* ---- bounds of the model ----
MaxFrameCount == 3      \* FRAME_COUNT ranges over 1..MaxFrameCount
MaxOrphans == 1         \* at most this many orphaned intervals are tracked
MaxRestarts == 1        \* at most this many restart timeouts are pending
MaxTileRequests == 2    \* tile requests the proxy serves at the same time
FloatBits == 8          \* significand bits of a number (53 in the source)
FloatFractionBits == 3  \* binary digits below 1 that a number can have

\* ---- program constants ----
FRAME_DELAY == 1500
RESTART_DELAY == 1000
REFRESH_DELAY == 5 * 60 * 1000
RETRY_DELAY == 30 * 1000

VARIABLES
    FRAME_COUNT,        \* const FRAME_COUNT (1 in the source; any value >= 1)
    map,                \* "undefined" | "created" | "loaded" | "removed"
    destroyed,          \* onDestroy has run
    mapSources,         \* ids of the raster sources mounted on the map
    mapLayers,          \* ids of the raster layers mounted on the map
    visibleLayers,      \* mounted layers whose visibility is 'visible'
    radarLayers,        \* sequence of [id, time]
    animationPosition,  \* 0-based index
    animationTimer,     \* "null" | "active" | "cleared"
    isPlaying,
    orphanIntervals,    \* running nextFrame intervals animationTimer lost
    restartTimeouts,    \* pending end-of-cycle setTimeout callbacks
    reloadTimers,       \* delay -> pending setTimeout(loadRainViewerData)
    fetches,            \* manifest fetches in flight
    lastLoad,           \* how the last finished reload attempt ended:
                        \* "none" | "ok" (line 159 reached) | "failed" (.catch ran)
    manifest,           \* data.radar.past of the then-callback that has just
                        \* run to its end; not fresh after any other event
    loadedOnce,         \* some reload attempt has succeeded
    tileRequests,       \* the tile proxy's requests, by connection
    boundsCall,         \* the arguments of a calculateRadarBounds call
    boundsResult        \* what the call returned; <<>> before it returns

vars == <<FRAME_COUNT, map, destroyed, mapSources, mapLayers, visibleLayers,
          radarLayers,
          animationPosition, animationTimer, isPlaying, orphanIntervals,
          restartTimeouts, reloadTimers, fetches, lastLoad, manifest,
          loadedOnce, tileRequests, boundsCall, boundsResult>>

surface == <<mapSources, mapLayers, visibleLayers>>
engine == <<surface, radarLayers, animationPosition>>
timers == <<animationTimer, orphanIntervals, restartTimeouts, reloadTimers>>

\* the page: every variable of the animation engine
page == <<FRAME_COUNT, map, destroyed, engine, timers, isPlaying, fetches,
          lastLoad, manifest, loadedOnce>>
\* the server routes under /api/radar
services == <<tileRequests, boundsCall, boundsResult>>

\* ---- data ----
NullFrame == 0 - 1      \* a manifest element that is not an object (null)
\* frame.time: two distinct timestamps tell the frames of a manifest apart;
\* upstream may send them in any order
FrameTimes == {1, 2}
MaxManifest == MaxFrameCount
Manifests == UNION {[1..n -> FrameTimes \cup {NullFrame}] : n \in 0..MaxManifest}
Delays == {REFRESH_DELAY, RETRY_DELAY}

\* `radar-layer-${index}`: one id per index
LayerId(index) == index

Min(a, b) == IF a < b THEN a ELSE b

\* ---- the fetched document ----
\* res.json() resolved: either the document has no radar.past (reading it
\* throws), or radar.past is an array whose elements are frames or null.
JsonData == {[hasPast |-> FALSE, past |-> <<>>]}
            \cup {[hasPast |-> TRUE, past |-> m] : m \in Manifests}

\* mutant: no slice, every frame of the manifest is mounted
RadarFramesUntrimmed(past) == past

\* mutant: slice(0, FRAME_COUNT), the oldest frames instead of the newest
RadarFramesOldest(past) ==
    [i \in 1..Min(Len(past), FRAME_COUNT) |-> past[i]]

\* data.radar.past.slice(-FRAME_COUNT)
RadarFrames(past) ==
    LET n == Min(Len(past), FRAME_COUNT)
    IN  [i \in 1..n |-> past[Len(past) - n + i]]

\* ---- timers ----
\* clearInterval(animationTimer): stops the interval the handle names, if it
\* still runs; the variable keeps the (now dead) handle.
TimerAfterClear == IF animationTimer = "active" THEN "cleared" ELSE animationTimer

\* animationTimer = setInterval(nextFrame, FRAME_DELAY) without a clear
\* before it: an interval the old handle named keeps running, unnamed.
OrphansAfterSet ==
    IF animationTimer = "active" THEN orphanIntervals + 1 ELSE orphanIntervals

CanSetInterval == animationTimer = "active" => orphanIntervals < MaxOrphans

RunningIntervals ==
    orphanIntervals + (IF animationTimer = "active" THEN 1 ELSE 0)

PendingReloads == reloadTimers[REFRESH_DELAY] + reloadTimers[RETRY_DELAY]

\* the delay nextFrame passes to setTimeout; the browser clamps it at 0
RestartDelay ==
    IF RESTART_DELAY - FRAME_DELAY > 0 THEN RESTART_DELAY - FRAME_DELAY ELSE 0

\* ---- the map surface ----
\* A call on a removed map either throws or is ignored, depending on the
\* map library: both outcomes are kept.
MapOutcomes == IF map = "removed" THEN BOOLEAN ELSE {FALSE}

TrackedIds == {radarLayers[i].id : i \in 1..Len(radarLayers)}

NoManifest == [fresh |-> FALSE, past |-> <<>>]

\* ---- the server routes at rest ----
Connections == 1..MaxTileRequests
IdleRequest ==
    [state |-> "idle", params |-> <<>>, upstream |-> <<>>,
     settled |-> "none", response |-> <<>>]
NoBoundsCall == [lat |-> 0, lon |-> 0, rangeKm |-> 0]

\* ---- lifecycle ----
\* the page's script block has run (lines 7-23)
PageInit ==
    /\ FRAME_COUNT \in 1..MaxFrameCount
    /\ map = "undefined"
    /\ destroyed = FALSE
    /\ mapSources = {}
    /\ mapLayers = {}
    /\ visibleLayers = {}
    /\ radarLayers = <<>>
    /\ animationPosition = 0
    /\ animationTimer = "null"
    /\ isPlaying = TRUE
    /\ orphanIntervals = 0
    /\ restartTimeouts = 0
    /\ reloadTimers = [d \in Delays |-> 0]
    /\ fetches = 0
    /\ lastLoad = "none"
    /\ manifest = NoManifest
    /\ loadedOnce = FALSE

Init ==
    /\ PageInit
    /\ tileRequests = [c \in Connections |-> IdleRequest]
    /\ boundsCall = NoBoundsCall
    /\ boundsResult = <<>>

\* onMount: new maplibregl.Map(...)
onMount ==
    /\ ~destroyed
    /\ map = "undefined"
    /\ map' = "created"
    /\ UNCHANGED <<lastLoad, loadedOnce, services>>
    /\ manifest' = NoManifest
    /\ UNCHANGED <<FRAME_COUNT, destroyed, engine, timers, isPlaying, fetches>>

\* map.on('load'): the first loadRainViewerData() call and the play button
mapLoad ==
    /\ map = "created"
    /\ map' = "loaded"
    /\ fetches' = fetches + 1
    /\ UNCHANGED <<lastLoad, loadedOnce, services>>
    /\ manifest' = NoManifest
    /\ UNCHANGED <<FRAME_COUNT, destroyed, engine, timers, isPlaying>>

onDestroy ==
    /\ ~destroyed
    /\ destroyed' = TRUE
    /\ IF map # "undefined"
       THEN /\ animationTimer' = TimerAfterClear
            /\ map' = "removed"
            /\ mapSources' = {}
            /\ mapLayers' = {}
            /\ visibleLayers' = {}
       ELSE UNCHANGED <<animationTimer, map, surface>>
    /\ UNCHANGED <<lastLoad, loadedOnce, services>>
    /\ manifest' = NoManifest
    /\ UNCHANGED <<FRAME_COUNT, radarLayers, animationPosition, isPlaying,
                   orphanIntervals, restartTimeouts, reloadTimers, fetches>>

\* ---- play / pause ----
\* mutant: the toggle also rewinds the animation to the first frame
togglePlayPauseRewinds ==
    /\ map = "loaded"
    /\ isPlaying' = ~isPlaying
    /\ IF ~isPlaying
       THEN /\ CanSetInterval
            /\ animationTimer' = "active"
            /\ orphanIntervals' = OrphansAfterSet
       ELSE /\ animationTimer' = TimerAfterClear
            /\ UNCHANGED orphanIntervals
    /\ animationPosition' = 0
    /\ UNCHANGED <<lastLoad, loadedOnce, services>>
    /\ manifest' = NoManifest
    /\ UNCHANGED <<FRAME_COUNT, map, destroyed, surface, radarLayers,
                   restartTimeouts, reloadTimers, fetches>>

togglePlayPause ==
    /\ map = "loaded"
    /\ isPlaying' = ~isPlaying
    /\ IF ~isPlaying
       THEN /\ CanSetInterval
            /\ animationTimer' = "active"
            /\ orphanIntervals' = OrphansAfterSet
       ELSE /\ animationTimer' = TimerAfterClear
            /\ UNCHANGED orphanIntervals
    /\ UNCHANGED <<lastLoad, loadedOnce, services>>
    /\ manifest' = NoManifest
    /\ UNCHANGED <<FRAME_COUNT, map, destroyed, engine, restartTimeouts,
                   reloadTimers, fetches>>

\* ---- the advance callback ----
\* mutant: no early return on an empty sequence; the callback goes on to the
\* end-of-cycle branch
nextFrameNoEarlyReturn(mapThrows) ==
    LET n == Len(radarLayers)
        hasCurrent == animationPosition < n
        next == IF n = 0 THEN 0 ELSE (animationPosition + 1) % n
        hidden == IF hasCurrent /\ map # "removed"
                  THEN visibleLayers \ {radarLayers[animationPosition + 1].id}
                  ELSE visibleLayers
        shown == IF n > 0 /\ map # "removed"
                          /\ radarLayers[next + 1].id \in mapLayers
                 THEN hidden \cup {radarLayers[next + 1].id}
                 ELSE hidden
    IN  /\ RunningIntervals > 0
        /\ UNCHANGED <<lastLoad, loadedOnce, services>>
        /\ manifest' = NoManifest
        /\ UNCHANGED <<FRAME_COUNT, map, destroyed, mapSources, mapLayers,
                       radarLayers, isPlaying, orphanIntervals, reloadTimers,
                       fetches>>
        /\ IF mapThrows /\ hasCurrent
           THEN UNCHANGED <<visibleLayers, animationPosition, animationTimer,
                            restartTimeouts>>
           ELSE IF mapThrows
           THEN /\ animationPosition' = next
                /\ UNCHANGED <<visibleLayers, animationTimer, restartTimeouts>>
           ELSE /\ visibleLayers' = shown
                /\ animationPosition' = next
                /\ IF n = 0 \/ next = n - 1
                   THEN /\ restartTimeouts < MaxRestarts
                        /\ animationTimer' = TimerAfterClear
                        /\ restartTimeouts' = restartTimeouts + 1
                   ELSE UNCHANGED <<animationTimer, restartTimeouts>>

\* nextFrame, run by any running interval.  mapThrows: whether a call on a
\* removed map throws (it aborts the callback at that call).
nextFrame(mapThrows) ==
    LET n == Len(radarLayers)
        hasCurrent == animationPosition < n
        next == (animationPosition + 1) % n
        hidden == IF hasCurrent /\ map # "removed"
                  THEN visibleLayers \ {radarLayers[animationPosition + 1].id}
                  ELSE visibleLayers
        shown == IF map # "removed" /\ radarLayers[next + 1].id \in mapLayers
                 THEN hidden \cup {radarLayers[next + 1].id}
                 ELSE hidden
    IN  /\ RunningIntervals > 0
        /\ UNCHANGED <<lastLoad, loadedOnce, services>>
        /\ manifest' = NoManifest
        /\ UNCHANGED <<FRAME_COUNT, map, destroyed, mapSources, mapLayers,
                       radarLayers, isPlaying, orphanIntervals, reloadTimers,
                       fetches>>
        /\ IF n = 0 \/ (mapThrows /\ hasCurrent)
           THEN \* early return, or the first setLayoutProperty throws
                UNCHANGED <<visibleLayers, animationPosition, animationTimer,
                            restartTimeouts>>
           ELSE IF mapThrows
           THEN \* no current layer to hide; the second setLayoutProperty throws
                /\ animationPosition' = next
                /\ UNCHANGED <<visibleLayers, animationTimer, restartTimeouts>>
           ELSE /\ visibleLayers' = shown
                /\ animationPosition' = next
                /\ IF next = n - 1
                   THEN /\ restartTimeouts < MaxRestarts
                        /\ animationTimer' = TimerAfterClear
                        /\ restartTimeouts' = restartTimeouts + 1
                   ELSE UNCHANGED <<animationTimer, restartTimeouts>>

\* mutant: the restart callback starts no interval
restartNoResume ==
    /\ restartTimeouts > 0
    /\ restartTimeouts' = restartTimeouts - 1
    /\ UNCHANGED <<animationTimer, orphanIntervals>>
    /\ UNCHANGED <<lastLoad, loadedOnce, services>>
    /\ manifest' = NoManifest
    /\ UNCHANGED <<FRAME_COUNT, map, destroyed, engine, isPlaying,
                   reloadTimers, fetches>>

\* the setTimeout callback of nextFrame (lines 73-77)
restart ==
    /\ restartTimeouts > 0
    /\ restartTimeouts' = restartTimeouts - 1
    /\ IF isPlaying
       THEN /\ CanSetInterval
            /\ animationTimer' = "active"
            /\ orphanIntervals' = OrphansAfterSet
       ELSE UNCHANGED <<animationTimer, orphanIntervals>>
    /\ UNCHANGED <<lastLoad, loadedOnce, services>>
    /\ manifest' = NoManifest
    /\ UNCHANGED <<FRAME_COUNT, map, destroyed, engine, isPlaying,
                   reloadTimers, fetches>>

\* ---- the manifest reload ----
\* mutant: the refresh is a repeating timer, firing again without being
\* scheduled again
reloadTimerFiresRepeats(delay) ==
    /\ reloadTimers[delay] > 0
    /\ fetches' = fetches + 1
    /\ UNCHANGED <<lastLoad, loadedOnce, services>>
    /\ manifest' = NoManifest
    /\ UNCHANGED <<FRAME_COUNT, map, destroyed, engine, isPlaying, timers>>

\* a setTimeout(loadRainViewerData, delay) fires: the fetch is issued
reloadTimerFires(delay) ==
    /\ reloadTimers[delay] > 0
    /\ reloadTimers' = [reloadTimers EXCEPT ![delay] = @ - 1]
    /\ fetches' = fetches + 1
    /\ UNCHANGED <<lastLoad, loadedOnce, services>>
    /\ manifest' = NoManifest
    /\ UNCHANGED <<FRAME_COUNT, map, destroyed, engine, isPlaying,
                   animationTimer, orphanIntervals, restartTimeouts>>

\* the delay of the timer the then-callback sets, and of the one .catch sets
ThenDelay == REFRESH_DELAY
\* mutant: the retry is scheduled at the normal refresh interval
CatchDelayNormal == REFRESH_DELAY
CatchDelay == RETRY_DELAY

\* mutant: .catch logs the error and schedules no retry
fetchRejectsGivesUp ==
    /\ fetches > 0
    /\ fetches' = fetches - 1
    /\ lastLoad' = "failed"
    /\ manifest' = NoManifest
    /\ UNCHANGED <<loadedOnce, services>>
    /\ UNCHANGED <<FRAME_COUNT, map, destroyed, engine, isPlaying, timers>>

\* fetch() or res.json() rejects: .catch runs, the then-callback does not
fetchRejects ==
    /\ fetches > 0
    /\ fetches' = fetches - 1
    /\ reloadTimers' = [reloadTimers EXCEPT ![CatchDelay] = @ + 1]
    /\ lastLoad' = "failed"
    /\ manifest' = NoManifest
    /\ UNCHANGED <<loadedOnce, services>>
    /\ UNCHANGED <<FRAME_COUNT, map, destroyed, engine, isPlaying,
                   animationTimer, orphanIntervals, restartTimeouts>>

\* radarFrames.forEach (lines 110-141), from `index` on.  acc is the state
\* so far: [radarLayers, mapSources, mapLayers, visibleLayers, thrown].
RECURSIVE AddFrames(_, _, _, _)
AddFrames(frames, index, mapThrows, acc) ==
    IF acc.thrown \/ index >= Len(frames) THEN acc
    ELSE
      LET frame == frames[index + 1]
          layerId == LayerId(index)
          pushed == Append(acc.radarLayers, [id |-> layerId, time |-> frame])
      IN  IF frame = NullFrame
          THEN \* frame.time on null throws
               [acc EXCEPT !.thrown = TRUE]
          ELSE IF map = "removed"
          THEN IF mapThrows
               THEN [acc EXCEPT !.thrown = TRUE]
               ELSE AddFrames(frames, index + 1, mapThrows,
                              [acc EXCEPT !.radarLayers = pushed])
          ELSE IF layerId \in acc.mapSources
          THEN \* addSource on an id already mounted throws
               [acc EXCEPT !.thrown = TRUE]
          ELSE AddFrames(frames, index + 1, mapThrows,
                 [acc EXCEPT !.radarLayers = pushed,
                             !.mapSources = @ \cup {layerId},
                             !.mapLayers = @ \cup {layerId},
                             !.visibleLayers =
                                 IF index = 0 /\ layerId \notin acc.mapLayers
                                 THEN @ \cup {layerId} ELSE @])

\* The then-callback up to line 141: clear the old layers, slice, mount.
ThenResult(data, mapThrows) ==
    LET before == [radarLayers |-> radarLayers, mapSources |-> mapSources,
                   mapLayers |-> mapLayers, visibleLayers |-> visibleLayers,
                   thrown |-> FALSE]
        cleared == [radarLayers |-> <<>>,
                    mapSources |-> mapSources \ TrackedIds,
                    mapLayers |-> mapLayers \ TrackedIds,
                    visibleLayers |-> visibleLayers \ TrackedIds,
                    thrown |-> FALSE]
        start == IF Len(radarLayers) > 0 THEN cleared ELSE before
    IN  IF Len(radarLayers) > 0 /\ mapThrows
        THEN \* map.getLayer on the removed map throws
             [before EXCEPT !.thrown = TRUE]
        ELSE IF ~data.hasPast
        THEN \* data.radar.past of a document without it throws
             [start EXCEPT !.thrown = TRUE]
        ELSE AddFrames(RadarFrames(data.past), 0, mapThrows, start)

\* mutant: the reload starts the advance interval whether or not the
\* animation is playing
fetchResolvesAlwaysStarts(data, mapThrows) ==
    LET r == ThenResult(data, mapThrows)
    IN  /\ fetches > 0
        /\ fetches' = fetches - 1
        /\ radarLayers' = r.radarLayers
        /\ mapSources' = r.mapSources
        /\ mapLayers' = r.mapLayers
        /\ visibleLayers' = r.visibleLayers
        /\ IF r.thrown
           THEN /\ reloadTimers' = [reloadTimers EXCEPT ![CatchDelay] = @ + 1]
                /\ lastLoad' = "failed"
                /\ manifest' = NoManifest
                /\ UNCHANGED <<animationPosition, animationTimer, loadedOnce>>
           ELSE /\ animationPosition' = 0
                /\ animationTimer' = "active"
                /\ reloadTimers' = [reloadTimers EXCEPT ![ThenDelay] = @ + 1]
                /\ lastLoad' = "ok"
                /\ loadedOnce' = TRUE
                /\ manifest' = [fresh |-> TRUE, past |-> data.past]
        /\ UNCHANGED <<FRAME_COUNT, map, destroyed, isPlaying, orphanIntervals,
                       restartTimeouts, services>>

\* res.json() resolves with data: the then-callback runs, and .catch after
\* it when it throws
fetchResolves(data, mapThrows) ==
    LET r == ThenResult(data, mapThrows)
    IN  /\ fetches > 0
        /\ fetches' = fetches - 1
        /\ radarLayers' = r.radarLayers
        /\ mapSources' = r.mapSources
        /\ mapLayers' = r.mapLayers
        /\ visibleLayers' = r.visibleLayers
        /\ IF r.thrown
           THEN /\ reloadTimers' = [reloadTimers EXCEPT ![CatchDelay] = @ + 1]
                /\ lastLoad' = "failed"
                /\ manifest' = NoManifest
                /\ UNCHANGED <<animationPosition, animationTimer, loadedOnce>>
           ELSE /\ animationPosition' = 0
                /\ animationTimer' = IF isPlaying THEN "active" ELSE animationTimer
                /\ reloadTimers' = [reloadTimers EXCEPT ![ThenDelay] = @ + 1]
                /\ lastLoad' = "ok"
                /\ loadedOnce' = TRUE
                /\ manifest' = [fresh |-> TRUE, past |-> data.past]
        /\ UNCHANGED <<FRAME_COUNT, map, destroyed, isPlaying, orphanIntervals,
                       restartTimeouts, services>>

Next ==
    \/ onMount
    \/ mapLoad
    \/ onDestroy
    \/ togglePlayPause
    \/ \E mapThrows \in MapOutcomes : nextFrame(mapThrows)
    \/ restart
    \/ \E delay \in Delays : reloadTimerFires(delay)
    \/ fetchRejects
    \/ \E data \in JsonData, mapThrows \in MapOutcomes :
          fetchResolves(data, mapThrows)

Spec == Init /\ [][Next]_vars

\* ---- fairness ----
\* The event loop runs every timer callback that is due: a pending reload
\* timer eventually fires.  Every fetch settles (the premise of the reload
\* chain): fetchRejects is enabled exactly while a fetch is in flight, so
\* its weak fairness rules out the behaviours in which a fetch stays in
\* flight for ever, and no others; a fetch that resolves disables it.
FairSpec ==
    /\ Spec
    /\ WF_vars(\E delay \in Delays : reloadTimerFires(delay))
    /\ WF_vars(fetchRejects)

\* ---- types ----
TypeOK ==
    /\ FRAME_COUNT \in 1..MaxFrameCount
    /\ map \in {"undefined", "created", "loaded", "removed"}
    /\ destroyed \in BOOLEAN
    /\ mapSources \subseteq 0..(MaxFrameCount - 1)
    /\ mapLayers \subseteq mapSources
    /\ visibleLayers \subseteq mapLayers
    /\ animationPosition \in 0..(MaxFrameCount - 1)
    /\ animationTimer \in {"null", "active", "cleared"}
    /\ isPlaying \in BOOLEAN
    /\ orphanIntervals \in 0..MaxOrphans
    /\ restartTimeouts \in 0..MaxRestarts
    /\ fetches \in 0..1
    /\ PendingReloads \in 0..1
    /\ lastLoad \in {"none", "ok", "failed"}

\* ======================================================================
\* The tile proxy: GET /api/radar/[time]/[z]/[x]/[y]
\* ======================================================================
TILE_MAX_AGE == 86400

TileTimes == {1, 2}
TileZooms == {0, 1}
TileParams == {<<time, z, 0, 0>> : time \in TileTimes, z \in TileZooms}
TileData == {"tile-a", "tile-b"}
UpstreamErrors == {"timeout of 0ms exceeded", "Request failed with status code 404"}

\* the RainViewer tile URL: 256 px tiles, color scheme 1, options 1_0
RadarUrl(time, z, x, y) ==
    <<"https://tilecache.rainviewer.com/v2/radar", time, 256, z, x, y, 1,
      "1_0.png">>

\* new Response(tileData, {headers}): status 200
TileResponse(tileData) ==
    [status |-> 200,
     contentType |-> "image/png",
     allowOrigin |-> "*",
     cacheControl |-> <<"public", TILE_MAX_AGE>>,
     tile |-> <<tileData>>,
     json |-> <<>>]

\* the message of the Error fetchRadarTile throws
TileErrorMessage(message) == <<"Failed to fetch radar tile: ", message>>

\* json({success, error, details}, {status: 500})
TileErrorResponse(details) ==
    [status |-> 500,
     contentType |-> "application/json",
     allowOrigin |-> "",
     cacheControl |-> <<>>,
     tile |-> <<>>,
     json |-> <<[success |-> FALSE,
                 error |-> "Failed to fetch radar tile",
                 details |-> details]>>]

\* GET up to the await of axios.get: one upstream request is issued
tileGET(c, params) ==
    /\ tileRequests[c].state = "idle"
    /\ tileRequests' = [tileRequests EXCEPT ![c] =
          [@ EXCEPT !.state = "awaiting",
                    !.params = params,
                    !.upstream = Append(@, RadarUrl(params[1], params[2],
                                                    params[3], params[4]))]]
    /\ UNCHANGED <<page, boundsCall, boundsResult>>

\* axios.get resolves: fetchRadarTile returns the data, GET wraps it
tileUpstreamResolves(c, tileData) ==
    /\ tileRequests[c].state = "awaiting"
    /\ tileRequests' = [tileRequests EXCEPT ![c] =
          [@ EXCEPT !.state = "responded",
                    !.settled = "resolved",
                    !.response = <<TileResponse(tileData)>>]]
    /\ UNCHANGED <<page, boundsCall, boundsResult>>

\* mutant: fetchRadarTile tries the upstream again when it fails
tileUpstreamRejectsRetries(c, message) ==
    /\ tileRequests[c].state = "awaiting"
    /\ Len(tileRequests[c].upstream) < 2
    /\ tileRequests' = [tileRequests EXCEPT ![c] =
          [@ EXCEPT !.upstream = Append(@, @[1])]]
    /\ UNCHANGED <<page, boundsCall, boundsResult>>

\* axios.get rejects: fetchRadarTile rethrows, GET's catch answers 500
tileUpstreamRejects(c, message) ==
    /\ tileRequests[c].state = "awaiting"
    /\ tileRequests' = [tileRequests EXCEPT ![c] =
          [@ EXCEPT !.state = "responded",
                    !.settled = "rejected",
                    !.response =
                        <<TileErrorResponse(TileErrorMessage(message))>>]]
    /\ UNCHANGED <<page, boundsCall, boundsResult>>

TileInit == Init /\ FRAME_COUNT = 1

TileNext ==
    \/ \E c \in Connections, params \in TileParams : tileGET(c, params)
    \/ \E c \in Connections, tileData \in TileData :
          tileUpstreamResolves(c, tileData)
    \/ \E c \in Connections, message \in UpstreamErrors :
          tileUpstreamRejects(c, message)

TileSpec == TileInit /\ [][TileNext]_vars

\* ======================================================================
\* calculateRadarBounds of GET /api/radar
\* ======================================================================
\* JavaScript numbers are binary floating point: every arithmetic result is
\* rounded to the nearest number with a fixed count of significant bits,
\* ties to the even significand.  The model keeps that rounding with
\* FloatBits significant bits.  A number is held as an integer count of
\* units of 1 / FloatScale.
RECURSIVE Pow2(_)
Pow2(n) == IF n = 0 THEN 1 ELSE 2 * Pow2(n - 1)

FloatScale == Pow2(FloatFractionBits)

Abs(a) == IF a < 0 THEN 0 - a ELSE a
Max(a, b) == IF a < b THEN b ELSE a

\* the spacing of the numbers around magnitude v (one unit in the last place)
RECURSIVE UlpFrom(_, _)
UlpFrom(v, q) == IF v < q * Pow2(FloatBits) THEN q ELSE UlpFrom(v, 2 * q)
Ulp(v) == UlpFrom(Abs(v), 1)

\* the number nearest to num / den units, ties to even
RoundToFloat(num, den) ==
    LET a == Abs(num)
        q == Ulp(a \div den)
        d == den * q
        m == a \div d
        rem == a % d
        up == (2 * rem > d) \/ (2 * rem = d /\ m % 2 = 1)
        r == (IF up THEN m + 1 ELSE m) * q
    IN  IF num < 0 THEN 0 - r ELSE r

\* the number literal num / den
FloatOf(num, den) == RoundToFloat(num * FloatScale, den)

FloatAdd(a, b) == RoundToFloat(a + b, 1)
FloatSub(a, b) == RoundToFloat(a - b, 1)
FloatMul(a, b) == RoundToFloat(a * b, FloatScale)
FloatDiv(a, b) == RoundToFloat(a * FloatScale, b)

\* the literal 111.32
KM_PER_DEGREE == FloatOf(11132, 100)

\* the stations and ranges the model draws: whole degrees and kilometres
Latitudes == {0 - 60, 0 - 45, 0 - 33, 0, 30, 33, 45, 60}
Longitudes == {0 - 97, 0 - 87, 0, 125}
Ranges == {100, 230, 460}
BoundsCalls ==
    {[lat |-> FloatOf(lat, 1), lon |-> FloatOf(lon, 1),
      rangeKm |-> FloatOf(r, 1)] :
        lat \in Latitudes, lon \in Longitudes, r \in Ranges}

\* Math.cos((lat * Math.PI) / 180) to three decimals, at the latitudes drawn
CosThousandths(degrees) ==
    CASE degrees = 0 -> 1000
      [] degrees = 30 -> 866
      [] degrees = 33 -> 839
      [] degrees = 45 -> 707
      [] degrees = 60 -> 500
Cos(lat) == FloatOf(CosThousandths(Abs(lat) \div FloatScale), 1000)

\* mutant: the longitude bounds are taken with the latitude offset
calculateRadarBoundsOneOffset(lat, lon, rangeKm) ==
    LET minLat == FloatSub(lat, FloatDiv(rangeKm, KM_PER_DEGREE))
        maxLat == FloatAdd(lat, FloatDiv(rangeKm, KM_PER_DEGREE))
        lonDegreesPerKm == FloatMul(KM_PER_DEGREE, Cos(lat))
        lonOffset == FloatDiv(rangeKm, lonDegreesPerKm)
        minLon == FloatSub(lon, FloatDiv(rangeKm, KM_PER_DEGREE))
        maxLon == FloatAdd(lon, lonOffset)
    IN  <<<<minLon, minLat>>, <<maxLon, maxLat>>>>

calculateRadarBounds(lat, lon, rangeKm) ==
    LET minLat == FloatSub(lat, FloatDiv(rangeKm, KM_PER_DEGREE))
        maxLat == FloatAdd(lat, FloatDiv(rangeKm, KM_PER_DEGREE))
        lonDegreesPerKm == FloatMul(KM_PER_DEGREE, Cos(lat))
        lonOffset == FloatDiv(rangeKm, lonDegreesPerKm)
        minLon == FloatSub(lon, lonOffset)
        maxLon == FloatAdd(lon, lonOffset)
    IN  <<<<minLon, minLat>>, <<maxLon, maxLat>>>>

\* the call of line 33 returns
boundsReturn ==
    /\ boundsResult = <<>>
    /\ boundsResult' = calculateRadarBounds(boundsCall.lat, boundsCall.lon,
                                            boundsCall.rangeKm)
    /\ UNCHANGED <<page, tileRequests, boundsCall>>

BoundsInit ==
    /\ PageInit
    /\ FRAME_COUNT = 1
    /\ tileRequests = [c \in Connections |-> IdleRequest]
    /\ boundsCall \in BoundsCalls
    /\ boundsResult = <<>>

BoundsNext == boundsReturn

BoundsSpec == BoundsInit /\ [][BoundsNext]_vars

\* the corners of the returned box
MinLon == boundsResult[1][1]
MinLat == boundsResult[1][2]
MaxLon == boundsResult[2][1]
MaxLat == boundsResult[2][2]

\* ======================================================================
\* Claims
\* ======================================================================

\* C1: in every reachable state at most one timer drives the animation:
\* one advance interval or one pending restart timeout, never both and
\* never two advance intervals.
C1_SingleDrivingTimer == RunningIntervals + restartTimeouts <= 1

\* C2: whenever the overlay sequence is non-empty, at most one overlay
\* layer is visible.
C2_AtMostOneVisible ==
    Len(radarLayers) > 0 => Cardinality(visibleLayers) <= 1

\* C3: a reload attempt of the live engine that fails leaves the overlay
\* sequence, the mounted layers, their visibility, positionIndex and the
\* advance timer as they were.
C3_FailedReloadChangesNothing ==
    [][(map = "loaded" /\ Len(radarLayers) > 0
          /\ fetches' = fetches - 1 /\ lastLoad' = "failed")
       => UNCHANGED <<radarLayers, surface, animationPosition,
                      animationTimer, orphanIntervals, restartTimeouts>>]_vars

\* C4: a failed reload attempt schedules exactly one retry, 30 s ahead,
\* and nothing at the 5 min interval; a successful one schedules exactly
\* one reload, 5 min ahead, and nothing at 30 s.
C4_OneReloadScheduled ==
    [][fetches' = fetches - 1 =>
        /\ lastLoad' \in {"ok", "failed"}
        /\ lastLoad' = "failed" =>
              reloadTimers' = [reloadTimers EXCEPT ![30 * 1000] = @ + 1]
        /\ lastLoad' = "ok" =>
              reloadTimers' = [reloadTimers EXCEPT ![5 * 60 * 1000] = @ + 1]]_vars

\* a reload of a loaded engine has failed and its only pending timer is
\* the 30 s retry
C4_RetryPending ==
    /\ lastLoad = "failed"
    /\ Len(radarLayers) > 0
    /\ fetches = 0
    /\ reloadTimers[RETRY_DELAY] = 1
    /\ reloadTimers[REFRESH_DELAY] = 0

\* C5: after teardown no engine timer is pending: no advance interval, no
\* restart timeout, no scheduled reload or retry.
C5_NoTimerAfterTeardown ==
    destroyed =>
        /\ RunningIntervals = 0
        /\ restartTimeouts = 0
        /\ PendingReloads = 0

\* C6: a manifest fetch that completes after teardown is discarded: it
\* mounts and removes nothing, leaves positionIndex and visibility alone,
\* and starts or schedules no timer.
C6_StaleFetchDiscarded ==
    [][(destroyed /\ fetches' = fetches - 1)
       => UNCHANGED <<radarLayers, surface, animationPosition, timers>>]_vars

\* C7: while the engine stays paused, positionIndex and the visible overlay
\* change only through a reload.
C7_NoAdvanceWhilePaused ==
    [][(~isPlaying /\ ~isPlaying' /\ map = "loaded" /\ map' = "loaded"
          /\ fetches' = fetches)
       => UNCHANGED <<animationPosition, visibleLayers>>]_vars

\* C8: the play/pause toggle, in either direction, leaves the overlay
\* sequence, positionIndex and every overlay's visibility unchanged; it
\* changes only isPlaying and the advance timer.
C8_ToggleKeepsFrame ==
    [][isPlaying' # isPlaying
       => UNCHANGED <<radarLayers, animationPosition, surface,
                      restartTimeouts, reloadTimers, fetches>>]_vars

\* paused in the middle of a three-frame cycle
C8_PausedMidCycle ==
    /\ ~isPlaying
    /\ animationTimer = "cleared"
    /\ Len(radarLayers) = 3
    /\ animationPosition = 1
    /\ visibleLayers = {1}

\* C9: the number of mounted overlay layers never exceeds FRAME_COUNT.
C9_AtMostFrameCountLayers ==
    /\ Len(radarLayers) <= FRAME_COUNT
    /\ Cardinality(mapLayers) <= FRAME_COUNT
    /\ Cardinality(mapSources) <= FRAME_COUNT

\* a reload has just replaced the layers of a playing animation, from a
\* manifest longer than FRAME_COUNT
C9_ReloadedWhilePlaying ==
    /\ manifest.fresh
    /\ Len(manifest.past) > FRAME_COUNT
    /\ isPlaying
    /\ restartTimeouts = 1
    /\ Cardinality(mapLayers) = FRAME_COUNT

\* C10: after a successful reload with manifest M the overlay sequence is
\* the last min(|M|, FRAME_COUNT) descriptors of M, in M's order, so it is
\* non-empty whenever M is.
C10_LastFramesInOrder ==
    manifest.fresh =>
        LET M == manifest.past
            n == Len(radarLayers)
        IN  /\ lastLoad = "ok"
            /\ n = Min(Len(M), FRAME_COUNT)
            /\ \A i \in 1..n : radarLayers[i].time = M[Len(M) - n + i]
            /\ (Len(M) > 0 => n > 0)

\* a manifest that is longer than FRAME_COUNT and not in ascending order
C10_TrimmedUnsorted ==
    /\ manifest.fresh
    /\ FRAME_COUNT = 2
    /\ manifest.past = <<1, 2, 1>>
    /\ radarLayers = <<[id |-> 0, time |-> 2], [id |-> 1, time |-> 1]>>

\* C11: positionIndex is a valid index of the overlay sequence in every
\* reachable state: 0 <= positionIndex < length, and 0 when the sequence is
\* empty.
C11_PositionIsValidIndex ==
    IF Len(radarLayers) = 0
    THEN animationPosition = 0
    ELSE animationPosition \in 0..(Len(radarLayers) - 1)

\* C12: with n >= 1 overlays on the live map and isPlaying true, an Advance
\* hides the overlay at positionIndex, steps positionIndex to (i + 1) mod n
\* and shows that overlay, so exactly that one overlay is visible after it.
C12_AdvanceShowsExactlyNext ==
    [][(/\ map = "loaded"
        /\ isPlaying
        /\ Len(radarLayers) >= 1
        /\ \E mapThrows \in MapOutcomes : nextFrame(mapThrows))
       => /\ animationPosition' = (animationPosition + 1) % Len(radarLayers)
          /\ visibleLayers' = {radarLayers[animationPosition' + 1].id}]_vars

\* C13: a successful reload whose manifest has no frame leaves the overlay
\* sequence empty, no overlay visible and positionIndex 0; every Advance
\* that fires while the sequence is empty changes nothing: no index step, no
\* map call, no timer cancelled, no restart scheduled.
C13_EmptyManifestIdles ==
    [][/\ (manifest'.fresh /\ manifest'.past = <<>>)
          => /\ radarLayers' = <<>>
             /\ visibleLayers' = {}
             /\ animationPosition' = 0
       /\ (/\ lastLoad = "ok"
           /\ Len(radarLayers) = 0
           /\ \E mapThrows \in MapOutcomes : nextFrame(mapThrows))
          => /\ animationPosition' = 0
             /\ UNCHANGED <<engine, timers>>]_vars

\* a successful reload brought an empty manifest and started the advance
\* interval; an event has followed it and the sequence is still empty
C13_IdleOnEmpty ==
    /\ map = "loaded"
    /\ lastLoad = "ok"
    /\ radarLayers = <<>>
    /\ mapLayers = {}
    /\ isPlaying
    /\ animationTimer = "active"
    /\ ~manifest.fresh
    /\ fetches = 0
    /\ reloadTimers[REFRESH_DELAY] = 1

\* C16: whenever an Advance leaves positionIndex at the last index, the
\* advance timer is cancelled and exactly one restart is scheduled; no
\* Advance fires while that restart is pending; and the restart starts an
\* advance timer only if isPlaying is still true when it fires.
C16_EndOfCycleRestart ==
    [][/\ (/\ map = "loaded"
           /\ Len(radarLayers) > 0
           /\ (\E mapThrows \in MapOutcomes : nextFrame(mapThrows))
           /\ animationPosition' = Len(radarLayers) - 1)
          => /\ animationTimer' # "active"
             /\ restartTimeouts' = restartTimeouts + 1
       /\ (restartTimeouts > 0 /\ Len(radarLayers) > 0)
          => ~(\E mapThrows \in MapOutcomes : nextFrame(mapThrows))
       /\ (restart /\ ~isPlaying)
          => UNCHANGED <<animationTimer, orphanIntervals>>]_vars

\* C17: right after every successful reload of the live engine with a
\* non-empty manifest, only the overlays of the new sequence are mounted,
\* positionIndex is 0, overlay 0 is visible and no other, and the advance
\* timer has been (re)started if and only if isPlaying.
C17_ReloadResetsAnimation ==
    [][(/\ map = "loaded"
        /\ manifest'.fresh
        /\ Len(manifest'.past) > 0)
       => /\ Len(radarLayers') > 0
          /\ mapLayers' = {radarLayers'[i].id : i \in 1..Len(radarLayers')}
          /\ mapSources' = mapLayers'
          /\ animationPosition' = 0
          /\ visibleLayers' = {radarLayers'[1].id}
          /\ isPlaying => animationTimer' = "active"
          /\ ~isPlaying => /\ animationTimer' = animationTimer
                           /\ animationTimer' # "active"]_vars

\* a one-frame manifest has just replaced a sequence that had reached its
\* end, while the animation was paused
C17_ReloadedWhilePaused ==
    /\ map = "loaded"
    /\ manifest.fresh
    /\ FRAME_COUNT = 3
    /\ manifest.past = <<2>>
    /\ ~isPlaying
    /\ restartTimeouts = 1
    /\ animationTimer = "cleared"
    /\ visibleLayers = {0}
    /\ mapLayers = {0}

\* C19: at most one manifest reload is outstanding at any time: the
\* scheduled reload timers and the fetches in flight number at most one
\* together, whatever the order of successes and failures.
C19_OneReloadOutstanding == fetches + PendingReloads <= 1

\* the retry timer of a failed reload has fired: its fetch is in flight and
\* no reload timer is pending
C19_FetchAfterRetry ==
    /\ map = "loaded"
    /\ fetches = 1
    /\ PendingReloads = 0
    /\ lastLoad = "failed"
    /\ Len(radarLayers) > 0

\* C18: every reload attempt is eventually followed by another one, as
\* long as every fetch settles: a fetch in flight leads to a scheduled
\* reload, and a scheduled reload leads to a fetch in flight.
C18_ReloadChainNeverEnds ==
    /\ (fetches = 1) ~> (PendingReloads = 1)
    /\ (PendingReloads = 1) ~> (fetches = 1)

\* the live engine's second attempt: the 5 min timer of a successful reload
\* has fired and its fetch is in flight
C18_SecondAttempt ==
    /\ map = "loaded"
    /\ ~destroyed
    /\ lastLoad = "ok"
    /\ fetches = 1
    /\ PendingReloads = 0

\* C14: the tile proxy issues exactly one upstream request for each tile
\* request, for that tile's URL, and never a second one; when the upstream
\* request succeeds the answer is the tile as image/png with a one-day
\* public cache directive, and when it fails the answer is HTTP 500 with
\* the body {success: false, error, details}.
C14_OneUpstreamRequestPerTile ==
    \A c \in Connections :
        LET req == tileRequests[c]
        IN  /\ req.state = "idle" => req.upstream = <<>>
            /\ req.state # "idle" =>
                  req.upstream = <<RadarUrl(req.params[1], req.params[2],
                                            req.params[3], req.params[4])>>
            /\ req.state = "responded" =>
                  LET res == req.response[1]
                  IN  /\ req.settled = "resolved" =>
                            /\ res.status = 200
                            /\ res.contentType = "image/png"
                            /\ res.cacheControl = <<"public", 24 * 60 * 60>>
                            /\ Len(res.tile) = 1
                            /\ res.json = <<>>
                      /\ req.settled = "rejected" =>
                            /\ res.status = 500
                            /\ res.tile = <<>>
                            /\ Len(res.json) = 1
                            /\ res.json[1].success = FALSE
                            /\ res.json[1].error = "Failed to fetch radar tile"
                            /\ Len(res.json[1].details) = 2

\* two tile requests were served at the same time; one got its tile, the
\* other an upstream failure
C14_TileAndFailure ==
    /\ tileRequests[1].state = "responded"
    /\ tileRequests[1].settled = "resolved"
    /\ Len(tileRequests[1].upstream) = 1
    /\ tileRequests[2].state = "responded"
    /\ tileRequests[2].settled = "rejected"
    /\ Len(tileRequests[2].upstream) = 1

\* C20: the animation of the live engine is never stuck while playing:
\* once a reload has succeeded, whenever isPlaying holds and the overlay
\* sequence is non-empty, an advance interval is running or a restart
\* timeout is pending.
C20_NeverStuckWhilePlaying ==
    (map = "loaded" /\ loadedOnce /\ isPlaying /\ Len(radarLayers) > 0)
        => RunningIntervals + restartTimeouts >= 1

\* the restart timeout has fired at the end of a two-frame cycle: the
\* interval it started is the only timer that drives the animation
C20_RestartedAtEndOfCycle ==
    /\ map = "loaded"
    /\ loadedOnce
    /\ isPlaying
    /\ Len(radarLayers) = 2
    /\ animationPosition = 1
    /\ animationTimer = "active"
    /\ orphanIntervals = 0
    /\ restartTimeouts = 0

\* C15 (as stated): calculateRadarBounds is symmetric about the station:
\* maxLat - lat equals lat - minLat and maxLon - lon equals lon - minLon.
C15_BoundsSymmetric ==
    boundsResult # <<>> =>
        /\ FloatSub(MaxLat, boundsCall.lat) = FloatSub(boundsCall.lat, MinLat)
        /\ FloatSub(MaxLon, boundsCall.lon) = FloatSub(boundsCall.lon, MinLon)

\* C15 (amended): calculateRadarBounds is symmetric about the station up to
\* rounding: maxLat - lat and lat - minLat differ by at most two units in
\* the last place of the larger latitude bound, and likewise maxLon - lon
\* and lon - minLon for the longitude bounds.
C15_BoundsSymmetricToRounding ==
    boundsResult # <<>> =>
        /\ Abs(FloatSub(MaxLat, boundsCall.lat)
               - FloatSub(boundsCall.lat, MinLat))
             <= 2 * Ulp(Max(Abs(MinLat), Abs(MaxLat)))
        /\ Abs(FloatSub(MaxLon, boundsCall.lon)
               - FloatSub(boundsCall.lon, MinLon))
             <= 2 * Ulp(Max(Abs(MinLon), Abs(MaxLon)))

\* a box has been returned whose two latitude half-spans differ
C15_RoundedApart ==
    /\ boundsResult # <<>>
    /\ FloatSub(MaxLat, boundsCall.lat) # FloatSub(boundsCall.lat, MinLat)

\* C21: after every reload attempt, successful or failed at any step, the
\* radar layer and source ids mounted on the map surface are exactly the
\* ids recorded in radarLayers.
C21_MountedEqualsTracked ==
    [][fetches' = fetches - 1
       => /\ mapLayers' = {radarLayers'[i].id : i \in 1..Len(radarLayers')}
          /\ mapSources' = mapLayers']_vars

====
